---- MODULE Spec2Model ----
(***************************************************************************)
(* standardnotes-fs: the command-line entry point main() of                *)
(* standardnotes_fs.py, modelled as a state machine.                       *)
(*                                                                         *)
(* One run of main() is a sequence of steps, one per block of the          *)
(* function; the config file and the credentials file live on disk and     *)
(* survive from one run to the next, everything else is local to a run.    *)
(* A ConfigParser is a map section -> (option -> value); a file on disk is *)
(* [dir, exists, data] with data the ConfigParser content it holds.        *)
(* Values are '%'-free single-line strings, the domain on which            *)
(* ConfigParser.write followed by read_file gives back what was written.   *)
(***************************************************************************)
EXTENDS Integers, Sequences, FiniteSets, TLC

VARIABLES
    pc,             \* position of the running main(), "exited" after it
    args,           \* the parsed command line (parse_options)
    disk,           \* [config |-> file, creds |-> file]: the two files
    config,         \* ConfigParser of the config file
    creds,          \* ConfigParser of the credentials file
    keys,           \* local keys (a dict)
    login_success,  \* local login_success
    sync_sec,       \* local sync_sec
    sync_url,       \* local sync_url
    username,       \* local username
    password,       \* local password, Unbound until assigned
    sn_api,         \* what the run asked of StandardNotesAPI
    prompted,       \* the prompts shown (input / getpass)
    oserror,        \* the file operations of this run that raised OSError
    fuse,           \* the FUSE(...) call of this run
    exit_status,    \* exit status of the process, Running while it runs
    loaded,         \* the two files' content as the run found it
    run,            \* how many times the program has been started
    prev            \* what the previous run did (history)

vars == <<pc, args, disk, config, creds, keys, login_success, sync_sec,
          sync_url, username, password, sn_api, prompted, oserror, fuse,
          exit_status, loaded, run, prev>>

locals == <<config, creds, keys, login_success, sync_sec, sync_url,
            username, password, sn_api, prompted, fuse>>

----------------------------------------------------------------------------
(* Program constants *)

OFFICIAL_SERVER_URL == "https://sync.standardnotes.org"
DEFAULT_SYNC_SEC == 30
MINIMUM_SYNC_SEC == 5

(* Bounds and input sets *)

MaxRuns == 2            \* how many times in a row the program is started
MaxSyncSec == 6         \* largest --sync-sec tried besides the default
MinSyncSec == 0 - 2     \* smallest --sync-sec tried

NoArg == "<none>"           \* argparse: option not given (None)
Unbound == "<unbound>"      \* a local name not assigned yet
Running == 0 - 1

CustomURL == "https://sn.example.org"
BadURL == "sn.example.org"      \* no scheme: requests raises MissingSchema

Usernames == {"alice", "bob"}
Passwords == {"pw1"}
SyncSecInputs == (MinSyncSec .. MaxSyncSec) \cup {DEFAULT_SYNC_SEC}

----------------------------------------------------------------------------
(* dicts and ConfigParser objects *)

EmptyDict == [k \in {} |-> ""]

\* dict.update / ConfigParser section update: d's entries win, others stay
Update(m, d) ==
    [k \in DOMAIN m \cup DOMAIN d |-> IF k \in DOMAIN d THEN d[k] ELSE m[k]]

\* ConfigParser()
NewParser == [s \in {} |-> EmptyDict]

has_section(cp, s) == s \in DOMAIN cp

has_option(cp, s, o) == s \in DOMAIN cp /\ o \in DOMAIN cp[s]

\* ConfigParser.read_dict: sections are added when missing, options are set
\* one by one; what the section already holds and d does not name stays
read_dict(cp, d) ==
    [s \in DOMAIN cp \cup DOMAIN d |->
        IF s \in DOMAIN d
        THEN Update(IF s \in DOMAIN cp THEN cp[s] ELSE EmptyDict, d[s])
        ELSE cp[s]]

remove_section(cp, s) == [t \in DOMAIN cp \ {s} |-> cp[t]]

\* KeyDerivation: the key set derived from a username and a password
\* (api.gen_keys: pw, mk, ak); the same inputs give the same key set
gen_keys(u, p) == [k \in {"pw", "mk", "ak"} |-> k \o ":" \o u \o ":" \o p]

----------------------------------------------------------------------------
(* Files *)

NoDir == [dir |-> FALSE, exists |-> FALSE, data |-> NewParser]
NoFile == [dir |-> TRUE, exists |-> FALSE, data |-> NewParser]
File(cp) == [dir |-> TRUE, exists |-> TRUE, data |-> cp]

ConfigContents ==
    { NewParser,
      [user |-> [username |-> "alice"]],
      [user |-> [sync_url |-> CustomURL]],
      [user |-> [username |-> "alice", sync_url |-> CustomURL]],
      [user |-> [username |-> "alice"], keys |-> gen_keys("alice", "pw1")] }

CredsContents ==
    { NewParser,
      [keys |-> EmptyDict],
      [keys |-> gen_keys("alice", "pw1")],
      [keys |-> Update(gen_keys("alice", "pw1"), [old |-> "stale"])] }

NoArgs ==
    [ logout |-> FALSE, unmount |-> FALSE, mountpoint |-> FALSE,
      no_config_files |-> FALSE, username |-> NoArg, password |-> NoArg,
      sync_url |-> NoArg, sync_sec |-> DEFAULT_SYNC_SEC ]

\* the command lines tried: every combination of the flags; a run that stops
\* before reading the login options (--logout, --unmount, no mountpoint) is
\* tried with those options left out
ArgsOver(syncs) ==
    { a \in [ logout : BOOLEAN, unmount : BOOLEAN, mountpoint : BOOLEAN,
              no_config_files : BOOLEAN,
              username : {NoArg, "bob"},
              password : {NoArg} \cup Passwords,
              sync_url : {NoArg, CustomURL, BadURL},
              sync_sec : syncs ] :
        (a.logout \/ a.unmount \/ ~a.mountpoint) =>
            /\ a.username = NoArg /\ a.password = NoArg
            /\ a.sync_url = NoArg /\ a.sync_sec = DEFAULT_SYNC_SEC }

Args == ArgsOver({DEFAULT_SYNC_SEC})

ArgsSync ==
    { a \in ArgsOver(SyncSecInputs) :
        a.sync_url = NoArg /\ a.password = NoArg }

\* no StandardNotesAPI yet: made by the constructor; called: the methods
\* called; gen_keys, sign_in: the argument each was called with; signed_in:
\* sign_in returned; raised: the exception that left the try block
NewApi == [made |-> FALSE, called |-> {}, gen_keys |-> Unbound,
           sign_in |-> EmptyDict, signed_in |-> FALSE, raised |-> "none"]

NoFuse == [called |-> FALSE, sync_sec |-> 0, mounted |-> FALSE]

NoPrev == [outcome |-> "none", conf |-> FALSE, written |-> FALSE,
           stored |-> FALSE,
           username |-> Unbound, sync_url |-> Unbound, keys |-> EmptyDict]

----------------------------------------------------------------------------
Init ==
    /\ pc = "start"
    /\ args = NoArgs
    /\ disk \in [config : {NoDir, NoFile} \cup {File(c) : c \in ConfigContents},
                 creds : {NoDir, NoFile} \cup {File(c) : c \in CredsContents}]
    /\ config = NewParser
    /\ creds = NewParser
    /\ keys = EmptyDict
    /\ login_success = FALSE
    /\ sync_sec = 0
    /\ sync_url = Unbound
    /\ username = Unbound
    /\ password = Unbound
    /\ sn_api = NewApi
    /\ prompted = {}
    /\ oserror = {}
    /\ fuse = NoFuse
    /\ exit_status = Running
    /\ loaded = disk
    /\ run = 0
    /\ prev = NoPrev

----------------------------------------------------------------------------
(* Steps of main() *)

Files == {"config", "creds"}

\* sys.exit(code), or the end of main()
Exit(code) ==
    /\ pc' = "exited"
    /\ exit_status' = code

Goto(label) ==
    /\ pc' = label
    /\ UNCHANGED exit_status

\* what a finished run leaves for the next one to be compared with
Summary ==
    [ outcome |-> IF pc # "exited" THEN "none"
              ELSE IF args.logout /\ ~args.unmount THEN "logout"
              ELSE IF login_success THEN "login_ok"
              ELSE IF sn_api.raised = "SNAPIException" THEN "rejected"
              ELSE "other",
      conf |-> pc = "exited" /\ ~args.no_config_files,
      written |-> pc = "exited" /\ \A n \in Files : <<"write", n>> \notin oserror,
      stored |-> pc = "exited" /\ sn_api.made /\ prompted = {}
                    /\ args.username = NoArg /\ args.password = NoArg,
      username |-> IF login_success THEN username ELSE Unbound,
      sync_url |-> IF login_success THEN sync_url ELSE Unbound,
      keys |-> IF login_success THEN keys ELSE EmptyDict ]

\* lines 69-89: a new process: parse the command line, fresh locals
ParseOptions(argv) ==
    /\ pc = "start"
    /\ run < MaxRuns
    /\ run' = run + 1
    /\ args' \in argv
    /\ pc' = "logout"
    /\ loaded' = disk
    /\ UNCHANGED <<disk, locals, oserror, exit_status, prev>>

\* lines 267-268: main() is over and so is the process: its memory is gone,
\* the files stay
ProcessEnd ==
    /\ pc = "exited"
    /\ pc' = "start"
    /\ prev' = Summary
    /\ args' = NoArgs
    /\ exit_status' = Running
    /\ config' = NewParser
    /\ creds' = NewParser
    /\ keys' = EmptyDict
    /\ login_success' = FALSE
    /\ sync_sec' = 0
    /\ sync_url' = Unbound
    /\ username' = Unbound
    /\ password' = Unbound
    /\ sn_api' = NewApi
    /\ prompted' = {}
    /\ oserror' = {}
    /\ fuse' = NoFuse
    /\ loaded' = disk
    /\ UNCHANGED <<disk, run>>

\* Path.unlink(): the file is gone, or OSError (missing, or not removable)
Unlinked(f) == [f EXCEPT !.exists = FALSE, !.data = NewParser]

\* lines 91-102: --logout removes both files and, without --unmount, exits 0
Logout ==
    /\ pc = "logout"
    /\ IF args.logout
       THEN /\ \E denied \in SUBSET {n \in Files : disk[n].exists} :
                /\ disk' = [n \in Files |->
                              IF disk[n].exists /\ n \notin denied
                              THEN Unlinked(disk[n]) ELSE disk[n]]
                /\ oserror' = {<<"unlink", n>> : n \in
                                 {m \in Files : ~disk[m].exists \/ m \in denied}}
            /\ IF ~args.unmount THEN Exit(0) ELSE Goto("mountpoint")
       ELSE /\ Goto("mountpoint")
            /\ UNCHANGED <<disk, oserror>>
    /\ UNCHANGED <<args, locals, loaded, run, prev>>

\* lines 104-107: a mountpoint is required
CheckMountpoint ==
    /\ pc = "mountpoint"
    /\ IF ~args.mountpoint THEN Exit(1) ELSE Goto("unmount")
    /\ UNCHANGED <<args, disk, locals, oserror, loaded, run, prev>>

\* lines 109-121: --unmount runs fusermount -u / umount and exits
Unmount ==
    /\ pc = "unmount"
    /\ IF args.unmount
       THEN \E ok \in BOOLEAN : Exit(IF ok THEN 0 ELSE 1)
       ELSE Goto("sync_sec")
    /\ UNCHANGED <<args, disk, locals, oserror, loaded, run, prev>>

\* faulty variant: only a non-positive interval is raised to the minimum
ClampSyncSecNonPositive(requested) ==
    IF requested <= 0 THEN MINIMUM_SYNC_SEC ELSE requested

\* lines 123-129: keep sync_sec above the minimum sync time
ClampSyncSec(requested) ==
    IF requested < MINIMUM_SYNC_SEC THEN MINIMUM_SYNC_SEC ELSE requested

SetSyncSec ==
    /\ pc = "sync_sec"
    /\ sync_sec' = ClampSyncSec(args.sync_sec)
    /\ Goto("load_config")
    /\ UNCHANGED <<args, disk, config, creds, keys, login_success, sync_url,
                   username, password, sn_api, prompted, fuse, oserror,
                   loaded, run, prev>>

\* faulty variant: --no-config-files is ignored
ConfigFilesAlwaysEnabled == TRUE

\* lines 131-175, for one of the two files: unless --no-config-files, make
\* the file's directory (exit 1 when that fails) and read the file into its
\* parser (an OSError on open leaves the parser empty)
ConfigFilesEnabled == ~args.no_config_files

Load(n, parser, next) ==
    IF ~ConfigFilesEnabled
    THEN /\ Goto(next)
         /\ UNCHANGED <<disk, parser, oserror>>
    ELSE \/ /\ disk[n].dir              \* FileExistsError: pass
            /\ disk[n].exists
            /\ parser' = disk[n].data   \* read_file
            /\ Goto(next)
            /\ UNCHANGED <<disk, oserror>>
         \/ /\ disk[n].dir
            /\ ~disk[n].exists          \* open raises OSError
            /\ oserror' = oserror \cup {<<"open", n>>}
            /\ Goto(next)
            /\ UNCHANGED <<disk, parser>>
         \/ /\ ~disk[n].dir             \* mkdir made it; there is no file
            /\ disk' = [disk EXCEPT ![n].dir = TRUE]
            /\ oserror' = oserror \cup {<<"open", n>>}
            /\ Goto(next)
            /\ UNCHANGED parser
         \/ /\ ~disk[n].dir             \* mkdir raised OSError
            /\ oserror' = oserror \cup {<<"mkdir", n>>}
            /\ Exit(1)
            /\ UNCHANGED <<disk, parser>>

LoadConfig ==
    /\ pc = "load_config"
    /\ Load("config", config, "load_creds")
    /\ UNCHANGED <<args, creds, keys, login_success, sync_sec, sync_url,
                   username, password, sn_api, prompted, fuse, loaded, run, prev>>

LoadCreds ==
    /\ pc = "load_creds"
    /\ Load("creds", creds, "login_params")
    /\ UNCHANGED <<args, config, keys, login_success, sync_sec, sync_url,
                   username, password, sn_api, prompted, fuse, loaded, run, prev>>

\* lines 178-183
ChooseSyncUrl ==
    IF args.sync_url # NoArg THEN args.sync_url
    ELSE IF has_option(config, "user", "sync_url") THEN config["user"]["sync_url"]
    ELSE OFFICIAL_SERVER_URL

\* lines 187-190: the stored username and keys are used
UseStored ==
    /\ has_option(config, "user", "username")
    /\ has_section(creds, "keys")
    /\ args.username = NoArg
    /\ args.password = NoArg

\* lines 177-197: figure out all login params
LoginParams ==
    /\ pc = "login_params"
    /\ sync_url' = ChooseSyncUrl
    /\ IF UseStored
       THEN /\ username' = config["user"]["username"]
            /\ keys' = creds["keys"]
            /\ UNCHANGED <<password, prompted>>
       ELSE /\ username' \in (IF args.username # NoArg THEN {args.username}
                              ELSE Usernames)
            /\ password' \in (IF args.password # NoArg THEN {args.password}
                              ELSE Passwords)
            /\ prompted' = {q \in {"username", "password"} : args[q] = NoArg}
            /\ UNCHANGED keys
    /\ Goto("login")
    /\ UNCHANGED <<args, disk, config, creds, login_success, sync_sec, sn_api,
                   fuse, oserror, loaded, run, prev>>

\* faulty variant: every caught exception is only printed and main() goes on
RaiseAndGoOn(api, e) ==
    /\ sn_api' = [api EXCEPT !.raised = e]
    /\ IF e = "UnboundLocalError"
       THEN /\ pc' = "exited"
            /\ exit_status' = 1
       ELSE /\ pc' = "write_config"
            /\ UNCHANGED exit_status

\* an exception leaving the try block of lines 200-208: SNAPIException is
\* printed and main() goes on (lines 209-210), ConnectionError and
\* MissingSchema exit 1 (lines 211-218), anything else is not caught and
\* ends the process with a traceback, exit status 1
Raise(api, e) ==
    /\ sn_api' = [api EXCEPT !.raised = e]
    /\ IF e = "SNAPIException" THEN Goto("write_config") ELSE Exit(1)

\* what a request to the sync server can raise: a URL without scheme always
\* raises MissingSchema; otherwise the server may be unreachable or refuse
Failures == IF sync_url = BadURL THEN {"MissingSchema"}
            ELSE {"ConnectionError", "SNAPIException"}

\* lines 200-202: sn_api = StandardNotesAPI(sync_url, username); if not keys
NewStandardNotesAPI ==
    /\ pc = "login"
    /\ sn_api' = [sn_api EXCEPT !.made = TRUE]
    /\ IF keys = EmptyDict THEN Goto("gen_keys") ELSE Goto("sign_in")
    /\ UNCHANGED <<args, disk, config, creds, keys, login_success, sync_sec,
                   sync_url, username, password, prompted, fuse, oserror,
                   loaded, run, prev>>

\* lines 203-204: keys = sn_api.gen_keys(password); del password
\* (reading password when it was never assigned raises UnboundLocalError)
GenKeys ==
    /\ pc = "gen_keys"
    /\ \/ /\ password = Unbound
          /\ Raise(sn_api, "UnboundLocalError")
          /\ UNCHANGED <<keys, password>>
       \/ /\ password # Unbound
          /\ \E e \in Failures :
                Raise([sn_api EXCEPT !.called = @ \cup {"gen_keys"},
                                      !.gen_keys = password], e)
          /\ UNCHANGED <<keys, password>>
       \/ /\ password # Unbound
          /\ sync_url # BadURL
          /\ sn_api' = [sn_api EXCEPT !.called = @ \cup {"gen_keys"},
                                      !.gen_keys = password]
          /\ keys' = gen_keys(username, password)
          /\ password' = Unbound
          /\ Goto("sign_in")
    /\ UNCHANGED <<args, disk, config, creds, login_success, sync_sec,
                   sync_url, username, prompted, fuse, oserror, loaded, run, prev>>

\* lines 205-208: sn_api.sign_in(keys); login_success = True
SignIn ==
    /\ pc = "sign_in"
    /\ \/ /\ \E e \in Failures :
                Raise([sn_api EXCEPT !.called = @ \cup {"sign_in"},
                                      !.sign_in = keys], e)
          /\ UNCHANGED login_success
       \/ /\ sync_url # BadURL
          /\ sn_api' = [sn_api EXCEPT !.called = @ \cup {"sign_in"},
                                      !.sign_in = keys, !.signed_in = TRUE]
          /\ login_success' = TRUE
          /\ Goto("write_config")
    /\ UNCHANGED <<args, disk, config, creds, keys, sync_sec, sync_url,
                   username, password, prompted, fuse, oserror, loaded, run, prev>>

\* faulty variant: the parser is written back whether or not the login was good
WrittenAlways(cp) == [dir |-> TRUE, exists |-> TRUE, data |-> cp]

\* open(mode='w+') truncates the file (or creates it); the parser is written
\* into it after a good login, nothing after a bad one
Written(cp) == File(IF login_success THEN cp ELSE NewParser)

\* lines 220-237: write config back if good, clear if not
ConfigToWrite ==
    remove_section(
        read_dict(config, [user |-> [sync_url |-> sync_url,
                                     username |-> username]]),
        "keys")

WriteConfig ==
    /\ pc = "write_config"
    /\ IF ~ConfigFilesEnabled
       THEN UNCHANGED <<disk, config, oserror>>
       ELSE \/ /\ config' = IF login_success THEN ConfigToWrite ELSE config
               /\ disk' = [disk EXCEPT !["config"] = Written(config')]
               /\ UNCHANGED oserror
            \/ /\ oserror' = oserror \cup {<<"write", "config">>}
               /\ UNCHANGED <<disk, config>>
    /\ Goto("write_creds")
    /\ UNCHANGED <<args, creds, keys, login_success, sync_sec, sync_url,
                   username, password, sn_api, prompted, fuse, loaded, run, prev>>

\* lines 239-253: write creds back if good, clear if not
CredsToWrite == read_dict(creds, [keys |-> keys])

WriteCreds ==
    /\ pc = "write_creds"
    /\ IF ~ConfigFilesEnabled
       THEN UNCHANGED <<disk, creds, oserror>>
       ELSE \/ /\ creds' = IF login_success THEN CredsToWrite ELSE creds
               /\ disk' = [disk EXCEPT !["creds"] = Written(creds')]
               /\ UNCHANGED oserror
            \/ /\ oserror' = oserror \cup {<<"write", "creds">>}
               /\ UNCHANGED <<disk, creds>>
    /\ Goto("mount")
    /\ UNCHANGED <<args, config, keys, login_success, sync_sec, sync_url,
                   username, password, sn_api, prompted, fuse, loaded, run, prev>>

\* faulty variant: the mount is not guarded by login_success
MayMountAlways == TRUE

\* lines 255-265: mount when logged in (RuntimeError is printed), then
\* main() returns: exit status 0
MayMount == login_success

Mount ==
    /\ pc = "mount"
    /\ IF MayMount
       THEN \E ok \in BOOLEAN :
                fuse' = [called |-> TRUE, sync_sec |-> sync_sec, mounted |-> ok]
       ELSE UNCHANGED fuse
    /\ Exit(0)
    /\ UNCHANGED <<args, disk, config, creds, keys, login_success, sync_sec,
                   sync_url, username, password, sn_api, prompted, oserror,
                   loaded, run, prev>>

----------------------------------------------------------------------------
Steps ==
    \/ ProcessEnd
    \/ Logout
    \/ CheckMountpoint
    \/ Unmount
    \/ SetSyncSec
    \/ LoadConfig
    \/ LoadCreds
    \/ LoginParams
    \/ NewStandardNotesAPI
    \/ GenKeys
    \/ SignIn
    \/ WriteConfig
    \/ WriteCreds
    \/ Mount

Next == ParseOptions(Args) \/ Steps

Spec == Init /\ [][Next]_vars

\* the same program, run over every --sync-sec of SyncSecInputs
NextSync == ParseOptions(ArgsSync) \/ Steps

SpecSync == Init /\ [][NextSync]_vars

----------------------------------------------------------------------------
(* Properties *)

\* the run is over
Exited == pc = "exited"

\* the login try block (lines 200-218) is over and the parsers still hold
\* what was loaded
LoginOver ==
    \/ pc = "write_config"
    \/ Exited /\ sn_api.raised \in {"ConnectionError", "MissingSchema",
                                    "UnboundLocalError"}

\* the run asked for no login option on the command line
NoLoginArgs == args.username = NoArg /\ args.password = NoArg

\* the username and the password came from the command line or a prompt
FromArgsOrPrompt ==
    /\ prompted = {q \in {"username", "password"} : args[q] = NoArg}
    /\ username \in (IF args.username # NoArg THEN {args.username} ELSE Usernames)

\* what is in a file on disk
Content(f) == [exists |-> f.exists, data |-> f.data]

Cleared(f) == f.exists /\ f.data = NewParser

Max(a, b) == IF a >= b THEN a ELSE b

\* C1: the filesystem is mounted only after sign_in returned in the same
\* run; a run whose login raised (server rejection, unreachable server,
\* invalid sync URL) ends without calling FUSE
MountOnlyAfterSignIn ==
    /\ fuse.called => sn_api.signed_in /\ "sign_in" \in sn_api.called
    /\ sn_api.raised # "none" => ~fuse.called
    /\ Exited /\ ~sn_api.signed_in => ~fuse.called

MountedAfterSignIn ==
    Exited /\ fuse.called /\ fuse.mounted /\ sn_api.signed_in

\* C2: a run whose key derivation or sign-in was rejected by the server ends
\* with a non-zero exit status, without mounting
AuthFailureExitsNonZero ==
    Exited /\ sn_api.raised = "SNAPIException" =>
        exit_status # 0 /\ ~fuse.called

\* C3: the sync interval handed to the mounted filesystem is
\* max(requested, MINIMUM_SYNC_SEC): never below 5, and the requested value
\* itself when that is at least 5
SyncSecFloor ==
    fuse.called =>
        /\ fuse.sync_sec = Max(args.sync_sec, MINIMUM_SYNC_SEC)
        /\ fuse.sync_sec >= MINIMUM_SYNC_SEC
        /\ args.sync_sec >= MINIMUM_SYNC_SEC => fuse.sync_sec = args.sync_sec

SyncSecRaised ==
    fuse.called /\ args.sync_sec <= 0 /\ fuse.sync_sec = MINIMUM_SYNC_SEC

\* C4: with a stored username, a stored 'keys' section and neither
\* --username nor --password, sign_in is called with the stored username and
\* keys, nothing is prompted and gen_keys is not reached; in every other
\* case the username and password come from the command line or a prompt and
\* the keys are derived from them
CachedKeysSubstitute ==
    /\ pc = "gen_keys" => ~UseStored
    /\ LoginOver =>
         IF UseStored
         THEN /\ sn_api.called = {"sign_in"}
              /\ sn_api.sign_in = creds["keys"]
              /\ username = config["user"]["username"]
              /\ prompted = {}
         ELSE /\ FromArgsOrPrompt
              /\ "gen_keys" \in sn_api.called
              /\ "sign_in" \in sn_api.called =>
                    sn_api.sign_in = gen_keys(username, sn_api.gen_keys)

\* C5: after a successful login with config files enabled, the credentials
\* file's 'keys' section is exactly the key set given to sign_in and the
\* config file holds the username and sync URL used; the next run, given no
\* --username, --password or --sync-url, signs in with the same three
KeySetRoundTrips ==
    /\ Exited /\ login_success /\ ~args.no_config_files =>
         /\ disk["creds"].exists
         /\ has_section(disk["creds"].data, "keys")
         /\ disk["creds"].data["keys"] = sn_api.sign_in
         /\ disk["config"].exists
         /\ has_option(disk["config"].data, "user", "username")
         /\ has_option(disk["config"].data, "user", "sync_url")
         /\ disk["config"].data["user"]["username"] = username
         /\ disk["config"].data["user"]["sync_url"] = sync_url
    /\ ( /\ prev.outcome = "login_ok" /\ prev.conf
         /\ NoLoginArgs /\ args.sync_url = NoArg
         /\ ~args.no_config_files
         /\ LoginOver ) =>
         /\ "sign_in" \in sn_api.called
         /\ sn_api.sign_in = prev.keys
         /\ username = prev.username
         /\ sync_url = prev.sync_url

\* C6: after a run with config files enabled and written in which the
\* server rejected the login, both files are empty, whether the attempt used
\* stored keys or not; the next run, given no --username and no --password,
\* prompts for both and uses no stored keys
RejectedLoginClearsFiles ==
    /\ ( /\ Exited /\ sn_api.raised = "SNAPIException"
         /\ ~args.no_config_files
         /\ \A n \in Files : <<"write", n>> \notin oserror ) =>
         \A n \in Files : Cleared(disk[n])
    /\ ( /\ prev.outcome = "rejected" /\ prev.conf /\ prev.written
         /\ NoLoginArgs
         /\ pc \in {"login", "gen_keys", "sign_in"} ) =>
         /\ prompted = {"username", "password"}
         /\ password # Unbound \/ "gen_keys" \in sn_api.called
         /\ pc = "login" => keys = EmptyDict
         /\ pc = "sign_in" => keys = gen_keys(username, sn_api.gen_keys)

RepromptedAfterRejectedStoredKeys ==
    /\ prev.outcome = "rejected" /\ prev.conf /\ prev.written /\ prev.stored
    /\ ~args.no_config_files /\ NoLoginArgs
    /\ pc = "sign_in"
    /\ prompted = {"username", "password"}
    /\ \A n \in Files : Cleared(loaded[n])

\* C7: in a run with --no-config-files neither file nor its directory is
\* loaded, created or written; the username and password come from the
\* command line or a prompt and the keys from gen_keys
NoConfigFilesTouchNothing ==
    (pc # "start" /\ args.no_config_files) =>
        /\ config = NewParser /\ creds = NewParser
        /\ \A n \in Files :
              /\ disk[n].dir = loaded[n].dir
              /\ disk[n].exists => loaded[n].exists /\ disk[n].data = loaded[n].data
              /\ oserror \cap {<<"mkdir", n>>, <<"open", n>>, <<"write", n>>} = {}
        /\ sn_api.made =>
              /\ FromArgsOrPrompt
              /\ pc # "login" => "gen_keys" \in sn_api.called \/ password # Unbound
              /\ "sign_in" \in sn_api.called =>
                    sn_api.sign_in = gen_keys(username, sn_api.gen_keys)

LoggedInWithoutConfigFiles ==
    /\ Exited /\ args.no_config_files /\ login_success /\ fuse.called
    /\ has_option(loaded["config"].data, "user", "username")
    /\ has_section(loaded["creds"].data, "keys")
    /\ NoLoginArgs
    /\ disk = loaded

\* C8: a run with --logout and without --unmount exits 0 having removed both
\* files, without prompting, contacting the server or mounting, whether or
\* not a mountpoint was given; the next run finds no stored username or keys
LogoutRemovesFiles ==
    /\ Exited /\ args.logout /\ ~args.unmount =>
         /\ exit_status = 0
         /\ \A n \in Files : ~disk[n].exists
         /\ prompted = {} /\ ~sn_api.made /\ ~fuse.called
    /\ prev.outcome = "logout" /\ pc = "login_params" =>
         /\ ~has_option(config, "user", "username")
         /\ ~has_section(creds, "keys")

\* C9: gen_keys(password) is reached only with a password read in the same
\* run from --password or the prompt, never on the stored-credentials branch
GenKeysNeedsPassword ==
    pc = "gen_keys" =>
        /\ password # Unbound
        /\ password \in (IF args.password # NoArg THEN {args.password}
                         ELSE Passwords)
        /\ "password" \in prompted \/ args.password # NoArg

\* C10: when the server cannot be reached or the sync URL has no scheme, the
\* run exits 1 before the write-back: both files hold what they held when
\* the run started and nothing is mounted; a server rejection, with the
\* files writable, clears both instead
NetworkErrorLeavesFiles ==
    /\ Exited /\ sn_api.raised \in {"ConnectionError", "MissingSchema"} =>
         /\ exit_status = 1
         /\ \A n \in Files : Content(disk[n]) = Content(loaded[n])
         /\ \A n \in Files : <<"write", n>> \notin oserror
         /\ ~fuse.called
    /\ ( /\ Exited /\ sn_api.raised = "SNAPIException" /\ ~args.no_config_files
         /\ \A n \in Files : <<"write", n>> \notin oserror ) =>
         \A n \in Files : Content(disk[n]) = Content(File(NewParser))

UnreachableServerKeepsStoredKeys ==
    /\ Exited /\ sn_api.raised = "ConnectionError"
    /\ ~args.no_config_files /\ NoLoginArgs
    /\ sn_api.called = {"sign_in"}
    /\ disk["creds"].exists /\ disk["creds"].data["keys"] = sn_api.sign_in
    /\ has_option(disk["config"].data, "user", "username")

====
